---------------------------- MODULE Spec2Model ----------------------------
(***************************************************************************)
(* Model of the AI code reviewer: the rule engine (run_rule_checks), the   *)
(* AI reviewer (run_ai_review), the CLI pipeline (main) and the service    *)
(* endpoint (review).                                                      *)
(*                                                                         *)
(* Text is a sequence of one-character tokens.  "\n" is the line break,    *)
(* " " is whitespace, ":" the colon, "5" and "." make decimal numbers,     *)
(* and "K" is a word: the word Confidence where a confidence line starts,  *)
(* any word of a comment elsewhere.                                        *)
(***************************************************************************)
EXTENDS Integers, Sequences, FiniteSets, TLC

(***************************************************************************)
(* Bounds of the model.                                                    *)
(***************************************************************************)
\* longest model response, in tokens
MaxLen == 6
\* tokens the analysis tools print during one run of run_rule_checks, all together
MaxOut == 3
\* configured rule categories
MaxRules == 2
\* the same two, where every platform and every repository content is gone through
MaxCloneOut == 1
MaxCloneRules == 1
\* in the CLI's report: comments of the AI review, rule categories
MaxComments == 2
MaxCats == 2
\* concurrent service requests: rule entries, tokens of a diff
MaxSvcRules == 1
MaxDiffLen == 2

NL == "\n"
SP == " "
Whitespace == {NL, SP}
Digits == {"5"}
AIChars == {NL, SP, ":", ".", "5", "K"}
\* what flake8 and radon print: line breaks, blanks and two words
ToolChars == {NL, SP, "E", "W"}

\* all token sequences over S of length at most n
SeqUpTo(S, n) == UNION {[1..k -> S] : k \in 0..n}

(***************************************************************************)
(* Python string primitives.                                               *)
(***************************************************************************)
RECURSIVE LStrip(_)
LStrip(s) ==
    IF s = <<>> THEN <<>>
    ELSE IF Head(s) \in Whitespace THEN LStrip(Tail(s)) ELSE s

RECURSIVE RStrip(_)
RStrip(s) ==
    IF s = <<>> THEN <<>>
    ELSE IF s[Len(s)] \in Whitespace THEN RStrip(SubSeq(s, 1, Len(s) - 1)) ELSE s

\* a slip: lstrip() where strip() is meant
StripLeftOnly(s) == LStrip(s)

\* str.strip()
Strip(s) == RStrip(LStrip(s))

\* index of the first occurrence of token c in s, 0 when there is none
IndexOf(s, c) ==
    IF \E i \in 1..Len(s) : s[i] = c
    THEN CHOOSE i \in 1..Len(s) : s[i] = c /\ \A j \in 1..(i - 1) : s[j] # c
    ELSE 0

\* str.splitlines(): no trailing empty line after a final line break
RECURSIVE SplitLines(_)
SplitLines(s) ==
    IF s = <<>> THEN <<>>
    ELSE LET k == IndexOf(s, NL)
         IN  IF k = 0 THEN <<s>>
             ELSE <<SubSeq(s, 1, k - 1)>> \o SplitLines(SubSeq(s, k + 1, Len(s)))

\* str.split(":", 1): one part without a colon, else the text before and after the first
SplitColon(s) ==
    LET k == IndexOf(s, ":")
    IN  IF k = 0 THEN <<s>>
        ELSE <<SubSeq(s, 1, k - 1), SubSeq(s, k + 1, Len(s))>>

RECURSIVE Pow10(_)
Pow10(n) == IF n = 0 THEN 1 ELSE 10 * Pow10(n - 1)

DigitVal(c) == IF c = "5" THEN 5 ELSE 0

RECURSIVE IntValue(_)
IntValue(d) ==
    IF d = <<>> THEN 0
    ELSE 10 * IntValue(SubSeq(d, 1, Len(d) - 1)) + DigitVal(d[Len(d)])

AllDigits(d) == \A i \in 1..Len(d) : d[i] \in Digits

\* A number is kept exactly, as its integer part and its fractional part in
\* units of 10^-Scale: [ip |-> 0, frac |-> One \div 2] is 0.5.
Scale == MaxLen
One == Pow10(Scale)

\* float() accepts, after trimming: digits, digits "." digits, "." digits, digits "."
FloatOk(t) ==
    LET u == Strip(t)
        p == IndexOf(u, ".")
    IN  IF p = 0 THEN u # <<>> /\ AllDigits(u)
        ELSE /\ AllDigits(SubSeq(u, 1, p - 1))
             /\ AllDigits(SubSeq(u, p + 1, Len(u)))
             /\ Len(u) > 1

FloatValue(t) ==
    LET u == Strip(t)
        p == IndexOf(u, ".")
        ip == IF p = 0 THEN u ELSE SubSeq(u, 1, p - 1)
        fp == IF p = 0 THEN <<>> ELSE SubSeq(u, p + 1, Len(u))
    IN  [ip |-> IntValue(ip), frac |-> IntValue(fp) * Pow10(Scale - Len(fp))]

(***************************************************************************)
(* Reference notions the properties of the text handling are written      *)
(* with.  They are stated on positions of the text, not with the           *)
(* primitives above.                                                       *)
(***************************************************************************)
SetMin(S) == CHOOSE m \in S : \A o \in S : m <= o
SetMax(S) == CHOOSE m \in S : \A o \in S : m >= o

\* the text between its first and its last token outside W
TrimOf(t, W) ==
    LET keep == {i \in 1..Len(t) : t[i] \notin W}
    IN  IF keep = {} THEN <<>> ELSE SubSeq(t, SetMin(keep), SetMax(keep))

\* the lines of a text: the pieces between its line breaks, a final line
\* break opening no further line
LinesOf(t) ==
    LET B == {i \in 1..Len(t) : t[i] = NL}
        n == Cardinality(B)
        brk(k) == IF k = 0 THEN 0
                  ELSE IF k = n + 1 THEN Len(t) + 1
                  ELSE CHOOSE i \in B : Cardinality({j \in B : j < i}) = k - 1
        all == [k \in 1..(n + 1) |-> SubSeq(t, brk(k - 1) + 1, brk(k) - 1)]
    IN  IF all[n + 1] = <<>> THEN SubSeq(all, 1, n) ELSE all

\* a decimal literal: digits with at most one point, at least one digit
IsNumberText(d) ==
    /\ d # <<>>
    /\ \A i \in 1..Len(d) : d[i] \in Digits \cup {"."}
    /\ Cardinality({i \in 1..Len(d) : d[i] = "."}) <= 1
    /\ \E i \in 1..Len(d) : d[i] \in Digits

RECURSIVE SumOver(_, _)
SumOver(S, f) ==
    IF S = {} THEN 0
    ELSE LET i == CHOOSE j \in S : TRUE IN f[i] + SumOver(S \ {i}, f)

\* the value of a decimal literal, digit by digit
NumberOf(d) ==
    LET P == {i \in 1..Len(d) : d[i] = "."}
        p == IF P = {} THEN Len(d) + 1 ELSE SetMin(P)
        dv(i) == IF d[i] = "5" THEN 5 ELSE 0
    IN  [ip   |-> SumOver(1..(p - 1), [i \in 1..(p - 1) |-> dv(i) * Pow10(p - 1 - i)]),
         frac |-> SumOver((p + 1)..Len(d),
                          [i \in (p + 1)..Len(d) |-> dv(i) * Pow10(Scale - (i - p))])]

\* a line of the shape  Confidence: <number>
ConfidenceShape(line) ==
    /\ Len(line) >= 2
    /\ line[1] = "K"
    /\ line[2] = ":"
    /\ IsNumberText(TrimOf(SubSeq(line, 3, Len(line)), {SP}))

ShapeNumber(line) == NumberOf(TrimOf(SubSeq(line, 3, Len(line)), {SP}))

(***************************************************************************)
(* More Python and operating-system primitives.                            *)
(***************************************************************************)
NonEmpty(l) == l # <<>>

\* [l.strip() for l in stdout.splitlines() if l.strip()]
Normalise(stdout) ==
    LET L == SplitLines(stdout)
    IN  SelectSeq([k \in 1..Len(L) |-> Strip(L[k])], NonEmpty)

\* q[:n] for n >= 0
Slice(q, n) == SubSeq(q, 1, IF n < Len(q) THEN n ELSE Len(q))

\* cfg.get("threshold", 0)
GetThreshold(cfg) == IF "threshold" \in DOMAIN cfg THEN cfg.threshold ELSE 0

\* issues[: cfg.get("threshold", 0)] if cfg.get("threshold") else issues
DiffThreshold(cfg, issues) ==
    IF "threshold" \in DOMAIN cfg /\ cfg.threshold # 0
    THEN Slice(issues, GetThreshold(cfg))
    ELSE issues

\* a slip: one issue too many is kept
RepoThresholdOffByOne(thresh, issues) ==
    IF thresh # 0 /\ Len(issues) > thresh THEN Slice(issues, thresh + 1) ELSE issues

\* if thresh and len(issues) > thresh: issues = issues[:thresh]
RepoThreshold(thresh, issues) ==
    IF thresh # 0 /\ Len(issues) > thresh THEN Slice(issues, thresh) ELSE issues

\* f"{fname}: {txt}"
FormatFinding(item) == item.filename \o <<":", SP>> \o item.issue_text

\* a temporary directory: the paths in it and those marked read-only
Paths == {"pack", "tree"}
Absent == [exists |-> FALSE, files |-> {}, ro |-> {}]
EmptyDir == [exists |-> TRUE, files |-> {}, ro |-> {}]
DirContents ==
    {d \in [exists : {TRUE}, files : SUBSET Paths, ro : SUBSET Paths] : d.ro \subseteq d.files}

\* removing a read-only path fails where the platform enforces the attribute
UnlinkFails(d, path, plat) == plat = "nt" /\ path \in d.ro

Unlink(d, path, plat) ==
    IF UnlinkFails(d, path, plat) THEN d
    ELSE [d EXCEPT !.files = @ \ {path}, !.ro = @ \ {path}]

\* a slip: the handler retries without clearing the read-only mark
on_rm_error_no_chmod(d, path, plat) == Unlink(d, path, plat)

\* os.chmod(path, stat.S_IWRITE); func(path)
on_rm_error(d, path, plat) == Unlink([d EXCEPT !.ro = @ \ {path}], path, plat)

\* shutil.rmtree(temp_dir, onerror=on_rm_error): the directory afterwards; it
\* is left in place, with what could not be removed, when the handler raises
RECURSIVE Rmtree(_, _)
Rmtree(d, plat) ==
    IF d.files = {} THEN Absent
    ELSE LET path == CHOOSE f \in d.files : TRUE
             after == IF UnlinkFails(d, path, plat)
                      THEN on_rm_error(d, path, plat)
                      ELSE Unlink(d, path, plat)
         IN  IF path \in after.files THEN after ELSE Rmtree(after, plat)

(***************************************************************************)
(* State.                                                                  *)
(***************************************************************************)
VARIABLES
    ai_pc,      \* position inside run_ai_review
    resp,       \* what the completion endpoint answered
    comments,   \* the comment lines run_ai_review holds
    conf,       \* the confidence line
    score,      \* the parsed score
    ai_err      \* the exception run_ai_review raised, "none" when it has not

VARIABLES
    platform,   \* "posix" or "nt"
    repo,       \* what a clone of the repository puts into a directory
    dir,        \* the temporary directories: of the front end and of _clone_and_lint
    fe_pc,      \* position inside the front end's diff resolution
    fe_err,     \* the exception the front end's resolution raised
    mode,       \* "repo" when repo_url and pr_number are given, else "diff"
    rr_pc,      \* position inside run_rule_checks
    n_rules,    \* the number of entries of rules_cfg; entry k is the k-th category
    rule_idx,   \* the entry the loop over rules_cfg.items() is at
    cfg,        \* that entry
    files,      \* the changed Python files
    file_idx,   \* the file the per-file loop is at
    issues,     \* the issues collected for the entry
    results,    \* the result map being built
    rr_err,     \* the exception run_rule_checks raised
    budget,     \* tokens the tools may still print
    produced    \* history: the issues the entry's tool has printed, in order

VARIABLES
    cli_pc,       \* position inside main
    cli_cfg,      \* cfg["ai_review"] and cfg["auto_reject"]
    auto_reject,  \* the --auto-reject flag
    rules,        \* what run_rule_checks returned: per category, its issues
    ai_comments,  \* what run_ai_review returned
    ai_score,
    total,
    report,       \* lines: the report, line by line
    shown,        \* what main has printed
    err_shown,    \* the counts main has printed to the error stream
    post,         \* the posting of the pull-request comment
    exit_status   \* the exit status of the process, -1 while it runs

VARIABLES
    svc_cfg,      \* cfg["rules"] of the service process
    svc_diff,     \* per request, req.diff
    svc_pc,       \* per request, its position inside _diff_only_lint
    svc_idx,      \* per request, the entry its loop is at
    svc_results,  \* per request, the result map being built
    temp_diff     \* the file temp.diff in the working directory of the process

ai_vars == <<ai_pc, resp, comments, conf, score, ai_err>>
cli_vars == <<cli_pc, cli_cfg, auto_reject, rules, ai_comments, ai_score, total, report,
              shown, err_shown, post, exit_status>>
svc_vars == <<svc_cfg, svc_diff, svc_pc, svc_idx, svc_results, temp_diff>>
rr_vars == <<platform, repo, dir, fe_pc, fe_err, mode, rr_pc, n_rules, rule_idx, cfg,
             files, file_idx, issues, results, rr_err, budget, produced>>
vars == <<ai_vars, rr_vars, cli_vars, svc_vars>>
\* what run_ai_review leaves alone, and what the other parts do
not_ai == <<rr_vars, cli_vars, svc_vars>>
not_rr == <<ai_vars, cli_vars, svc_vars>>
not_cli == <<ai_vars, rr_vars, svc_vars>>
not_svc == <<ai_vars, rr_vars, cli_vars>>

NoScore == [ip |-> -1, frac |-> 0]
NoResp == [kind |-> "pending"]

\* what openai.chat.completions.create may hand back
Responses ==
    {[kind |-> "no_choices"], [kind |-> "no_message"], [kind |-> "no_content"]}
    \cup {[kind |-> "content", content |-> c] : c \in SeqUpTo(AIChars, MaxLen)}

AIIdle ==
    /\ ai_pc = "idle"
    /\ resp = NoResp
    /\ comments = <<>>
    /\ conf = <<>>
    /\ score = NoScore
    /\ ai_err = "none"

AIInit ==
    /\ ai_pc = "call"
    /\ resp = NoResp
    /\ comments = <<>>
    /\ conf = <<>>
    /\ score = NoScore
    /\ ai_err = "none"

\* resp = openai.chat.completions.create(...)
AICall ==
    /\ ai_pc = "call"
    /\ \E r \in Responses : resp' = r
    /\ ai_pc' = "choice"
    /\ UNCHANGED <<comments, conf, score, ai_err>>
    /\ UNCHANGED not_ai

\* choice = resp.choices[0]
AIChoice ==
    /\ ai_pc = "choice"
    /\ IF resp.kind = "no_choices"
       THEN ai_pc' = "raised" /\ ai_err' = "IndexError"
       ELSE ai_pc' = "message" /\ ai_err' = ai_err
    /\ UNCHANGED <<resp, comments, conf, score>>
    /\ UNCHANGED not_ai

\* if not message or not message.content: raise RuntimeError
AIMessage ==
    /\ ai_pc = "message"
    /\ IF resp.kind \in {"no_message", "no_content"} \/ resp.content = <<>>
       THEN ai_pc' = "raised" /\ ai_err' = "RuntimeError"
       ELSE ai_pc' = "split" /\ ai_err' = ai_err
    /\ UNCHANGED <<resp, comments, conf, score>>
    /\ UNCHANGED not_ai

\* lines = message.content.strip().splitlines(); *comments, conf = lines
AISplit ==
    /\ ai_pc = "split"
    /\ LET lines == SplitLines(Strip(resp.content))
       IN  IF lines = <<>>
           THEN /\ ai_pc' = "raised" /\ ai_err' = "ValueError"
                /\ UNCHANGED <<comments, conf>>
           ELSE /\ comments' = SubSeq(lines, 1, Len(lines) - 1)
                /\ conf' = lines[Len(lines)]
                /\ ai_pc' = "score" /\ ai_err' = ai_err
    /\ UNCHANGED <<resp, score>>
    /\ UNCHANGED not_ai

\* try: score = float(conf.split(":", 1)[1].strip())  except: raise RuntimeError
AIScore ==
    /\ ai_pc = "score"
    /\ LET parts == SplitColon(conf)
       IN  IF Len(parts) < 2 \/ ~FloatOk(parts[2])
           THEN ai_pc' = "raised" /\ ai_err' = "RuntimeError" /\ score' = score
           ELSE ai_pc' = "returned" /\ score' = FloatValue(parts[2]) /\ ai_err' = ai_err
    /\ UNCHANGED <<resp, comments, conf>>
    /\ UNCHANGED not_ai

run_ai_review == AICall \/ AIChoice \/ AIMessage \/ AISplit \/ AIScore

(***************************************************************************)
(* The front end's diff resolution (cli.py main, service.py review) and    *)
(* run_rule_checks.  rules_cfg is read one entry at a time, when the loop  *)
(* over its items reaches the entry.                                       *)
(***************************************************************************)
Tools == {"flake8", "radon", "bandit", "pylint"}
Thresholds == {0, 1, 2}
\* a rule entry, with or without a threshold
ToolSpecs ==
    {[tool |-> t] : t \in Tools}
    \cup {[tool |-> t, threshold |-> n] : t \in Tools, n \in Thresholds}
NoCfg == [tool |-> "none"]
ChangedFiles == {<<>>, <<"a.py">>, <<"a.py", "b.py">>}

\* one run of a line-printing tool: it cannot be started, or it has printed
\* some text (its exit status is not looked at)
ToolRuns(b) ==
    {[started |-> FALSE]}
    \cup {[started |-> TRUE, stdout |-> o] : o \in SeqUpTo(ToolChars, b)}

BanditItems ==
    {[filename |-> <<"W">>, issue_text |-> <<"E">>],
     [filename |-> <<"E">>, issue_text |-> <<"W">>]}

\* one run of bandit -f json: its output is no JSON, JSON but no object,
\* an object whose results are no list, or an object with a results list
BanditRuns(b) ==
    {[started |-> FALSE]}
    \cup {[started |-> TRUE, json |-> k, results |-> <<>>] :
             k \in {"not_json", "not_object", "results_not_list"}}
    \cup {[started |-> TRUE, json |-> "object", results |-> r] :
             r \in SeqUpTo(BanditItems, b)}

NoMap == [k \in {} |-> <<>>]
Put(m, k, v) == [x \in DOMAIN m \cup {k} |-> IF x = k THEN v ELSE m[x]]

\* the issues a tool's text holds: its lines, trimmed, the blank ones left out
IssuesIn(printed) ==
    LET L == LinesOf(printed)
        T == [k \in 1..Len(L) |-> TrimOf(L[k], Whitespace)]
    IN  SelectSeq(T, NonEmpty)
FindingsIn(r) == [k \in 1..Len(r) |-> r[k].filename \o <<":", SP>> \o r[k].issue_text]

RRIdle ==
    /\ platform = "posix"
    /\ repo = EmptyDir
    /\ dir = [o \in {"resolve", "lint"} |-> Absent]
    /\ fe_pc = "idle"
    /\ fe_err = "none"
    /\ mode = "unset"
    /\ rr_pc = "idle"
    /\ n_rules = 0
    /\ rule_idx = 0
    /\ cfg = NoCfg
    /\ files = <<>>
    /\ file_idx = 0
    /\ issues = <<>>
    /\ results = NoMap
    /\ rr_err = "none"
    /\ budget = 0
    /\ produced = <<>>

\* a review about to start: on platform p, of a repository whose clone is r,
\* with n rule entries, its tools printing at most b tokens
RRStart(p, r, n, b) ==
    /\ platform = p
    /\ repo = r
    /\ dir = [o \in {"resolve", "lint"} |-> Absent]
    /\ fe_pc = "start"
    /\ fe_err = "none"
    /\ mode = "unset"
    /\ rr_pc = "idle"
    /\ n_rules = n
    /\ rule_idx = 0
    /\ cfg = NoCfg
    /\ files = <<>>
    /\ file_idx = 0
    /\ issues = <<>>
    /\ results = NoMap
    /\ rr_err = "none"
    /\ budget = b
    /\ produced = <<>>

\* a checkout whose pack files git has marked read-only
TypicalRepo == [exists |-> TRUE, files |-> Paths, ro |-> {"pack"}]

fe_rest == <<platform, repo, rr_pc, n_rules, rule_idx, cfg, files, file_idx, issues,
             results, rr_err, budget, produced>>

\* if repo_url and pr_number: tmp_dir = tempfile.mkdtemp(...)   else: the diff text
FEStart ==
    /\ fe_pc = "start"
    /\ \E m \in {"diff", "repo"} :
          /\ mode' = m
          /\ IF m = "repo"
             THEN fe_pc' = "clone" /\ dir' = [dir EXCEPT !["resolve"] = EmptyDir]
             ELSE fe_pc' = "resolved" /\ dir' = dir
    /\ UNCHANGED <<fe_err, fe_rest>>
    /\ UNCHANGED not_rr

\* subprocess.run(["git", "clone", ...], check=True): a failed clone may leave
\* part of the repository behind
FEClone ==
    /\ fe_pc = "clone"
    /\ \E ok \in BOOLEAN, d \in {EmptyDir, repo} :
          /\ (ok => d = repo)
          /\ dir' = [dir EXCEPT !["resolve"] = d]
          /\ IF ok THEN fe_pc' = "fetch" /\ fe_err' = fe_err
                   ELSE fe_pc' = "finally" /\ fe_err' = "CalledProcessError"
    /\ UNCHANGED <<mode, fe_rest>>
    /\ UNCHANGED not_rr

\* git fetch, git checkout, git diff, each with check=True
FEGit ==
    /\ fe_pc \in {"fetch", "checkout", "diff"}
    /\ \E ok \in BOOLEAN :
          IF ok
          THEN /\ fe_pc' = CASE fe_pc = "fetch" -> "checkout"
                             [] fe_pc = "checkout" -> "diff"
                             [] fe_pc = "diff" -> "finally"
               /\ fe_err' = fe_err
          ELSE fe_pc' = "finally" /\ fe_err' = "CalledProcessError"
    /\ UNCHANGED <<dir, mode, fe_rest>>
    /\ UNCHANGED not_rr

\* finally: shutil.rmtree(tmp_dir, onerror=on_rm_error)
FEFinally ==
    /\ fe_pc = "finally"
    /\ LET after == Rmtree(dir["resolve"], platform)
       IN  /\ dir' = [dir EXCEPT !["resolve"] = after]
           /\ IF after.exists
              THEN fe_pc' = "raised" /\ fe_err' = "PermissionError"
              ELSE /\ fe_pc' = IF fe_err = "none" THEN "resolved" ELSE "raised"
                   /\ fe_err' = fe_err
    /\ UNCHANGED <<mode, fe_rest>>
    /\ UNCHANGED not_rr

\* rules = run_rule_checks(diff, cfg["rules"], repo_url, pr_number, base)
FECallRules ==
    /\ fe_pc = "resolved"
    /\ rr_pc = "idle"
    /\ fe_pc' = "rules"
    /\ rr_pc' = "start"
    /\ UNCHANGED <<platform, repo, dir, fe_err, mode, n_rules, rule_idx, cfg, files,
                   file_idx, issues, results, rr_err, budget, produced>>
    /\ UNCHANGED not_rr

rr_fixed == <<platform, repo, fe_pc, fe_err, mode, n_rules>>

\* _diff_only_lint: with open("temp.diff", "w") ... f.write(diff); results = {}
DiffWrite ==
    /\ rr_pc = "start"
    /\ mode = "diff"
    /\ results' = NoMap
    /\ rule_idx' = 1
    /\ rr_pc' = "diff_loop"
    /\ UNCHANGED <<rr_fixed, dir, cfg, files, file_idx, issues, rr_err, budget, produced>>
    /\ UNCHANGED not_rr

\* one turn of  for name, cfg in rules_cfg.items()  in _diff_only_lint
DiffRule ==
    /\ rr_pc = "diff_loop"
    /\ rule_idx <= n_rules
    /\ \E c \in ToolSpecs :
          /\ cfg' = c
          /\ IF c.tool = "flake8"
             THEN \E run \in ToolRuns(budget) :
                     IF ~run.started
                     THEN /\ rr_pc' = "raised"
                          /\ rr_err' = "FileNotFoundError"
                          /\ produced' = <<>>
                          /\ UNCHANGED <<results, rule_idx, budget>>
                     ELSE /\ results' = Put(results, rule_idx,
                                            DiffThreshold(c, Normalise(run.stdout)))
                          /\ produced' = IssuesIn(run.stdout)
                          /\ budget' = budget - Len(run.stdout)
                          /\ rule_idx' = rule_idx + 1
                          /\ UNCHANGED <<rr_pc, rr_err>>
             ELSE /\ results' = Put(results, rule_idx, DiffThreshold(c, <<>>))
                  /\ produced' = <<>>
                  /\ rule_idx' = rule_idx + 1
                  /\ UNCHANGED <<rr_pc, rr_err, budget>>
    /\ UNCHANGED <<rr_fixed, dir, files, file_idx, issues>>
    /\ UNCHANGED not_rr

\* return results
DiffReturn ==
    /\ rr_pc = "diff_loop"
    /\ rule_idx > n_rules
    /\ rr_pc' = "returned"
    /\ UNCHANGED <<rr_fixed, dir, rule_idx, cfg, files, file_idx, issues, results,
                   rr_err, budget, produced>>
    /\ UNCHANGED not_rr

\* _clone_and_lint: temp_dir = tempfile.mkdtemp(...); results = {name: [] ...}
LintMkdtemp ==
    /\ rr_pc = "start"
    /\ mode = "repo"
    /\ dir' = [dir EXCEPT !["lint"] = EmptyDir]
    /\ results' = [k \in 1..n_rules |-> <<>>]
    /\ rr_pc' = "clone"
    /\ UNCHANGED <<rr_fixed, rule_idx, cfg, files, file_idx, issues, rr_err, budget,
                   produced>>
    /\ UNCHANGED not_rr

\* subprocess.run(["git", "clone", "--depth", "1", repo_url, temp_dir], check=True)
LintClone ==
    /\ rr_pc = "clone"
    /\ \E ok \in BOOLEAN, d \in {EmptyDir, repo} :
          /\ (ok => d = repo)
          /\ dir' = [dir EXCEPT !["lint"] = d]
          /\ IF ok THEN rr_pc' = "fetch" /\ rr_err' = rr_err
                   ELSE rr_pc' = "finally" /\ rr_err' = "CalledProcessError"
    /\ UNCHANGED <<rr_fixed, rule_idx, cfg, files, file_idx, issues, results, budget,
                   produced>>
    /\ UNCHANGED not_rr

\* git(["git", "fetch", ...]); git(["git", "checkout", "pr_branch"])
LintGit ==
    /\ rr_pc \in {"fetch", "checkout"}
    /\ \E ok \in BOOLEAN :
          IF ok
          THEN /\ rr_pc' = IF rr_pc = "fetch" THEN "checkout" ELSE "diff"
               /\ rr_err' = rr_err
          ELSE rr_pc' = "finally" /\ rr_err' = "CalledProcessError"
    /\ UNCHANGED <<rr_fixed, dir, rule_idx, cfg, files, file_idx, issues, results,
                   budget, produced>>
    /\ UNCHANGED not_rr

\* diff_stdout = git([... "--name-only", "--", "*.py"]).stdout; files = [...]
LintDiff ==
    /\ rr_pc = "diff"
    /\ \E ok \in BOOLEAN :
          IF ok
          THEN /\ \E fs \in ChangedFiles : files' = fs
               /\ rule_idx' = 1
               /\ rr_pc' = "rule"
               /\ rr_err' = rr_err
          ELSE /\ rr_pc' = "finally" /\ rr_err' = "CalledProcessError"
               /\ UNCHANGED <<files, rule_idx>>
    /\ UNCHANGED <<rr_fixed, dir, cfg, file_idx, issues, results, budget, produced>>
    /\ UNCHANGED not_rr

\* for name, cfg in rules_cfg.items(): tool = ...; thresh = ...; issues = []
LintRule ==
    /\ rr_pc = "rule"
    /\ IF rule_idx > n_rules
       THEN rr_pc' = "finally" /\ UNCHANGED <<cfg, issues, file_idx, produced>>
       ELSE \E c \in ToolSpecs :
               /\ cfg' = c
               /\ issues' = <<>>
               /\ produced' = <<>>
               /\ file_idx' = 1
               /\ rr_pc' = CASE c.tool \in {"flake8", "radon"} -> "file"
                             [] c.tool = "bandit" -> "bandit"
                             [] OTHER -> "assign"
    /\ UNCHANGED <<rr_fixed, dir, files, rule_idx, results, rr_err, budget>>
    /\ UNCHANGED not_rr

\* for f in files: p = subprocess.run([tool, f], ...); issues += [...]
LintFile ==
    /\ rr_pc = "file"
    /\ IF file_idx > Len(files)
       THEN rr_pc' = "assign" /\ UNCHANGED <<issues, file_idx, rr_err, budget, produced>>
       ELSE \E run \in ToolRuns(budget) :
               IF ~run.started
               THEN /\ rr_pc' = "finally"
                    /\ rr_err' = "FileNotFoundError"
                    /\ UNCHANGED <<issues, file_idx, budget, produced>>
               ELSE /\ issues' = issues \o Normalise(run.stdout)
                    /\ produced' = produced \o IssuesIn(run.stdout)
                    /\ budget' = budget - Len(run.stdout)
                    /\ file_idx' = file_idx + 1
                    /\ UNCHANGED <<rr_pc, rr_err>>
    /\ UNCHANGED <<rr_fixed, dir, cfg, files, rule_idx, results>>
    /\ UNCHANGED not_rr

\* p = subprocess.run(["bandit", ...]); try: data = json.loads(p.stdout) ...
LintBandit ==
    /\ rr_pc = "bandit"
    /\ \E run \in BanditRuns(budget) :
          IF ~run.started
          THEN /\ rr_pc' = "finally" /\ rr_err' = "FileNotFoundError"
               /\ UNCHANGED <<issues, budget, produced>>
          ELSE CASE run.json = "not_json" ->
                      /\ rr_pc' = "assign"
                      /\ UNCHANGED <<issues, rr_err, budget, produced>>
                 [] run.json = "not_object" ->
                      /\ rr_pc' = "finally" /\ rr_err' = "AttributeError"
                      /\ UNCHANGED <<issues, budget, produced>>
                 [] run.json = "results_not_list" ->
                      /\ rr_pc' = "finally" /\ rr_err' = "TypeError"
                      /\ UNCHANGED <<issues, budget, produced>>
                 [] run.json = "object" ->
                      /\ issues' = issues \o [k \in 1..Len(run.results) |->
                                                 FormatFinding(run.results[k])]
                      /\ produced' = produced \o FindingsIn(run.results)
                      /\ budget' = budget - Len(run.results)
                      /\ rr_pc' = "assign"
                      /\ rr_err' = rr_err
    /\ UNCHANGED <<rr_fixed, dir, cfg, files, rule_idx, file_idx, results>>
    /\ UNCHANGED not_rr

\* if thresh and len(issues) > thresh: issues = issues[:thresh];  results[name] = issues
LintAssign ==
    /\ rr_pc = "assign"
    /\ results' = Put(results, rule_idx, RepoThreshold(GetThreshold(cfg), issues))
    /\ rule_idx' = rule_idx + 1
    /\ rr_pc' = "rule"
    /\ UNCHANGED <<rr_fixed, dir, cfg, files, file_idx, issues, rr_err, budget, produced>>
    /\ UNCHANGED not_rr

\* finally: shutil.rmtree(temp_dir, onerror=on_rm_error);  return results
LintFinally ==
    /\ rr_pc = "finally"
    /\ LET after == Rmtree(dir["lint"], platform)
       IN  /\ dir' = [dir EXCEPT !["lint"] = after]
           /\ IF after.exists
              THEN rr_pc' = "raised" /\ rr_err' = "PermissionError"
              ELSE /\ rr_pc' = IF rr_err = "none" THEN "returned" ELSE "raised"
                   /\ rr_err' = rr_err
    /\ UNCHANGED <<rr_fixed, rule_idx, cfg, files, file_idx, issues, results, budget,
                   produced>>
    /\ UNCHANGED not_rr

resolve == FEStart \/ FEClone \/ FEGit \/ FEFinally \/ FECallRules
diff_only_lint == DiffWrite \/ DiffRule \/ DiffReturn
clone_and_lint ==
    LintMkdtemp \/ LintClone \/ LintGit \/ LintDiff \/ LintRule \/ LintFile
    \/ LintBandit \/ LintAssign \/ LintFinally
run_rule_checks == diff_only_lint \/ clone_and_lint

(***************************************************************************)
(* main of the CLI, from the call of run_rule_checks on.                   *)
(***************************************************************************)
\* n thousandths above ip
Milli(ip, n) == [ip |-> ip, frac |-> n * (One \div 1000)]

\* a >= b
GE(a, b) == a.ip > b.ip \/ (a.ip = b.ip /\ a.frac >= b.frac)

\* f"{ai_score:.2f}": the whole part and the hundredths shown.  Scores that
\* lie exactly between two hundredths, where the binary value decides, are
\* not among the scores of the model.
Format2(v) ==
    LET cents == v.ip * 100 + (v.frac * 100 + One \div 2) \div One
    IN  [whole |-> cents \div 100, cents |-> cents % 100]

Scores == {Milli(0, 100), Milli(0, 500), Milli(0, 849), Milli(0, 999), Milli(5, 0)}
CommentTexts == {<<"K">>, <<>>}
\* the issues of a category: none, or two
IssueLists == {<<>>, << <<"E">>, <<"W">> >>}
\* what run_rule_checks may return: per category, in order, a list of issues
RuleResults == SeqUpTo(IssueLists, MaxCats)

CliConfigs ==
    [min_confidence : {Milli(0, 500), Milli(1, 0)},
     max_comments : 0..MaxComments,
     enabled : BOOLEAN,
     overall_threshold : {0, 1, 3}]
NoCliCfg == [min_confidence |-> Milli(0, 0), max_comments |-> 0, enabled |-> FALSE,
             overall_threshold |-> 0]

RECURSIVE SumLen(_)
\* sum(len(v) for v in rules.values())
SumLen(r) == IF r = <<>> THEN 0 ELSE Len(Head(r)) + SumLen(Tail(r))

Bullets(items) == [k \in 1..Len(items) |-> [kind |-> "bullet", text |-> items[k]]]

RECURSIVE RuleSections(_, _)
\* for name, items in rules.items(): "### name (n)" and a bullet per item
RuleSections(r, k) ==
    IF k > Len(r) THEN <<>>
    ELSE <<[kind |-> "category", name |-> k, count |-> Len(r[k])]>>
         \o Bullets(r[k]) \o RuleSections(r, k + 1)

\* a slip: > where >= is meant
AISuggestionsStrictGate(c, v, acfg) ==
    IF GE(v, acfg.min_confidence) /\ v # acfg.min_confidence
    THEN Bullets(Slice(c, acfg.max_comments))
    ELSE <<[kind |-> "placeholder", score2 |-> Format2(v)]>>

\* if ai_score >= min_confidence: bullets of ai_comments[:max_comments]
\* else: the line  *Skipped AI feedback (confidence 0.10 < threshold).*
AISuggestions(c, v, acfg) ==
    IF GE(v, acfg.min_confidence)
    THEN Bullets(Slice(c, acfg.max_comments))
    ELSE <<[kind |-> "placeholder", score2 |-> Format2(v)]>>

BuildReport(r, c, v, acfg) ==
    <<[kind |-> "title"], [kind |-> "blank"], [kind |-> "rules_heading"]>>
    \o RuleSections(r, 1)
    \o <<[kind |-> "ai_heading"]>>
    \o AISuggestions(c, v, acfg)

\* a slip: >= where > is meant
RejectsAtThreshold(flag, dcfg, n) == (flag \/ dcfg.enabled) /\ n >= dcfg.overall_threshold

\* if auto_reject or cfg["auto_reject"]["enabled"]: if total > overall_threshold
Rejects(flag, dcfg, n) == (flag \/ dcfg.enabled) /\ n > dcfg.overall_threshold

CLIIdle ==
    /\ cli_pc = "idle"
    /\ cli_cfg = NoCliCfg
    /\ auto_reject = FALSE
    /\ rules = <<>>
    /\ ai_comments = <<>>
    /\ ai_score = NoScore
    /\ total = 0
    /\ report = <<>>
    /\ shown = <<>>
    /\ err_shown = <<>>
    /\ post = "none"
    /\ exit_status = -1

CLIInit ==
    /\ cli_pc = "rules"
    /\ cli_cfg \in CliConfigs
    /\ auto_reject \in BOOLEAN
    /\ rules = <<>>
    /\ ai_comments = <<>>
    /\ ai_score = NoScore
    /\ total = 0
    /\ report = <<>>
    /\ shown = <<>>
    /\ err_shown = <<>>
    /\ post = "none"
    /\ exit_status = -1

\* rules = run_rule_checks(...): it returns a map, or raises and main dies
CLIRules ==
    /\ cli_pc = "rules"
    /\ \/ \E r \in RuleResults : rules' = r /\ cli_pc' = "ai" /\ exit_status' = exit_status
       \/ rules' = rules /\ cli_pc' = "crashed" /\ exit_status' = 1
    /\ UNCHANGED <<cli_cfg, auto_reject, ai_comments, ai_score, total, report, shown,
                   err_shown, post>>
    /\ UNCHANGED not_cli

\* ai_comments, ai_score = run_ai_review(...): it returns, or raises and main dies
CLIReview ==
    /\ cli_pc = "ai"
    /\ \/ \E c \in SeqUpTo(CommentTexts, MaxComments), v \in Scores :
             /\ ai_comments' = c
             /\ ai_score' = v
             /\ cli_pc' = "report"
             /\ exit_status' = exit_status
       \/ /\ cli_pc' = "crashed"
          /\ exit_status' = 1
          /\ UNCHANGED <<ai_comments, ai_score>>
    /\ UNCHANGED <<cli_cfg, auto_reject, rules, total, report, shown, err_shown, post>>
    /\ UNCHANGED not_cli

\* total = ...; lines = [...]; report = "\n".join(lines); click.echo(report)
CLIReport ==
    /\ cli_pc = "report"
    /\ total' = SumLen(rules) + Len(ai_comments)
    /\ report' = BuildReport(rules, ai_comments, ai_score, cli_cfg)
    /\ shown' = Append(shown, "report")
    /\ cli_pc' = "file"
    /\ UNCHANGED <<cli_cfg, auto_reject, rules, ai_comments, ai_score, err_shown, post,
                   exit_status>>
    /\ UNCHANGED not_cli

\* if output_file: write the report and print that it was written
CLIWrite ==
    /\ cli_pc = "file"
    /\ \E output_file \in BOOLEAN :
          shown' = IF output_file THEN Append(shown, "written") ELSE shown
    /\ cli_pc' = "post"
    /\ UNCHANGED <<cli_cfg, auto_reject, rules, ai_comments, ai_score, total, report,
                   err_shown, post, exit_status>>
    /\ UNCHANGED not_cli

\* if the three GITHUB_ variables are set: post_pr_comment(report), whose
\* requests.post raises when the request cannot be made
CLIPost ==
    /\ cli_pc = "post"
    /\ \E env \in BOOLEAN, sent \in BOOLEAN :
          /\ (~env => sent)
          /\ post' = IF ~env THEN "skipped" ELSE IF sent THEN "posted" ELSE "raised"
          /\ IF env /\ ~sent
             THEN cli_pc' = "crashed" /\ exit_status' = 1
             ELSE cli_pc' = "decide" /\ exit_status' = exit_status
    /\ UNCHANGED <<cli_cfg, auto_reject, rules, ai_comments, ai_score, total, report,
                   shown, err_shown>>
    /\ UNCHANGED not_cli

\* the auto-reject step and the end of main
CLIDecide ==
    /\ cli_pc = "decide"
    /\ IF Rejects(auto_reject, cli_cfg, total)
       THEN err_shown' = Append(err_shown, total) /\ exit_status' = 1
       ELSE err_shown' = err_shown /\ exit_status' = 0
    /\ cli_pc' = "decided"
    /\ UNCHANGED <<cli_cfg, auto_reject, rules, ai_comments, ai_score, total, report,
                   shown, post>>
    /\ UNCHANGED not_cli

main == CLIRules \/ CLIReview \/ CLIReport \/ CLIWrite \/ CLIPost \/ CLIDecide

(***************************************************************************)
(* Two requests to the service at once, each with a diff and no           *)
(* repository: review runs in a worker thread per request, and both get    *)
(* to _diff_only_lint.                                                     *)
(***************************************************************************)
Requests == {1, 2}
DiffChars == {"a", "b"}

\* flake8 is a function of the file it reads: here, one issue per token
Flake8Issues(content) == [k \in 1..Len(content) |-> <<content[k]>>]

SvcIdle ==
    /\ svc_cfg = <<>>
    /\ svc_diff = [r \in Requests |-> <<>>]
    /\ svc_pc = [r \in Requests |-> "idle"]
    /\ svc_idx = [r \in Requests |-> 0]
    /\ svc_results = [r \in Requests |-> NoMap]
    /\ temp_diff = <<>>

SvcInit ==
    /\ svc_cfg \in UNION {[1..k -> ToolSpecs] : k \in 0..MaxSvcRules}
    /\ svc_diff \in [Requests -> SeqUpTo(DiffChars, MaxDiffLen)]
    /\ svc_pc = [r \in Requests |-> "open"]
    /\ svc_idx = [r \in Requests |-> 0]
    /\ svc_results = [r \in Requests |-> NoMap]
    /\ temp_diff = <<>>

\* open("temp.diff", "w"): the file is emptied
SvcOpen(r) ==
    /\ svc_pc[r] = "open"
    /\ temp_diff' = <<>>
    /\ svc_pc' = [svc_pc EXCEPT ![r] = "write"]
    /\ UNCHANGED <<svc_cfg, svc_diff, svc_idx, svc_results>>
    /\ UNCHANGED not_svc

\* f.write(diff) and the close: the text goes to the start of the file, over
\* what is there; results = {}
SvcWrite(r) ==
    /\ svc_pc[r] = "write"
    /\ temp_diff' = svc_diff[r] \o SubSeq(temp_diff, Len(svc_diff[r]) + 1, Len(temp_diff))
    /\ svc_pc' = [svc_pc EXCEPT ![r] = "loop"]
    /\ svc_idx' = [svc_idx EXCEPT ![r] = 1]
    /\ svc_results' = [svc_results EXCEPT ![r] = NoMap]
    /\ UNCHANGED <<svc_cfg, svc_diff>>
    /\ UNCHANGED not_svc

\* one turn of the loop: flake8 --diff temp.diff reads the file as it is now
SvcRule(r) ==
    /\ svc_pc[r] = "loop"
    /\ svc_idx[r] <= Len(svc_cfg)
    /\ LET c == svc_cfg[svc_idx[r]]
           found == IF c.tool = "flake8" THEN Flake8Issues(temp_diff) ELSE <<>>
       IN  svc_results' = [svc_results EXCEPT
                              ![r] = Put(@, svc_idx[r], DiffThreshold(c, found))]
    /\ svc_idx' = [svc_idx EXCEPT ![r] = @ + 1]
    /\ UNCHANGED <<svc_cfg, svc_diff, svc_pc, temp_diff>>
    /\ UNCHANGED not_svc

\* return results
SvcReturn(r) ==
    /\ svc_pc[r] = "loop"
    /\ svc_idx[r] > Len(svc_cfg)
    /\ svc_pc' = [svc_pc EXCEPT ![r] = "returned"]
    /\ UNCHANGED <<svc_cfg, svc_diff, svc_idx, svc_results, temp_diff>>
    /\ UNCHANGED not_svc

review == \E r \in Requests : SvcOpen(r) \/ SvcWrite(r) \/ SvcRule(r) \/ SvcReturn(r)

(***************************************************************************)
(* The specifications.                                                     *)
(***************************************************************************)
\* one review on a typical checkout, any rule entries, any tool output
InitRules ==
    /\ \E n \in 0..MaxRules : RRStart("posix", TypicalRepo, n, MaxOut)
    /\ AIIdle
    /\ CLIIdle
    /\ SvcIdle
SpecRules == InitRules /\ [][resolve \/ run_rule_checks]_vars

\* one review on either platform, of a repository with any read-only marks
InitClone ==
    /\ \E p \in {"posix", "nt"}, r \in DirContents, n \in 0..MaxCloneRules :
          RRStart(p, r, n, MaxCloneOut)
    /\ AIIdle
    /\ CLIIdle
    /\ SvcIdle
SpecClone == InitClone /\ [][resolve \/ run_rule_checks]_vars

InitAI == AIInit /\ RRIdle /\ CLIIdle /\ SvcIdle
SpecAI == InitAI /\ [][run_ai_review]_vars


InitCLI == CLIInit /\ AIIdle /\ RRIdle /\ SvcIdle
SpecCLI == InitCLI /\ [][main]_vars

InitService == SvcInit /\ AIIdle /\ RRIdle /\ CLIIdle
SpecService == InitService /\ [][review]_vars

AIDone == ai_pc \in {"returned", "raised"}
HasContent == AIDone /\ resp.kind = "content"
LastOf(q) == q[Len(q)]
FrontOf(q) == SubSeq(q, 1, Len(q) - 1)

(***************************************************************************)
(* C1: in both modes the list run_rule_checks returns for a category is a  *)
(* prefix of the issues the category's tool printed, in the tool's order:  *)
(* the first `threshold` of them when threshold > 0 and there are more,    *)
(* all of them when the threshold is 0 or absent; so never more than       *)
(* `threshold` when threshold > 0.  Stated on the steps: each step that    *)
(* completes an entry stores such a list for it, no step changes the list  *)
(* of another entry, and a return comes after all entries are completed.   *)
(***************************************************************************)
IsPrefix(a, b) == Len(a) <= Len(b) /\ \A k \in 1..Len(a) : a[k] = b[k]

ThresholdedPrefix(list, c, printed) ==
    /\ IsPrefix(list, printed)
    /\ ("threshold" \in DOMAIN c /\ c.threshold > 0 /\ Len(printed) > c.threshold)
          => Len(list) = c.threshold
    /\ ("threshold" \notin DOMAIN c \/ c.threshold = 0) => list = printed
    /\ ("threshold" \in DOMAIN c /\ c.threshold > 0) => Len(list) <= c.threshold

\* the step completes the entry the loop is at
Completes == rule_idx >= 1 /\ rule_idx' = rule_idx + 1

C1_Step ==
    /\ Completes => /\ rule_idx \in DOMAIN results'
                    /\ ThresholdedPrefix(results'[rule_idx], cfg', produced')
    /\ \A k \in DOMAIN results :
          (k # rule_idx \/ ~Completes) => (k \in DOMAIN results' /\ results'[k] = results[k])
    /\ (rr_pc' = "returned" /\ rr_pc # "returned")
          => (rule_idx' = n_rules + 1 /\ DOMAIN results' = 1..n_rules)

C1_ReturnedListIsThresholdedPrefix == [][C1_Step]_vars

\* repository mode: the tool printed issues for two files, more than the
\* threshold together, and the first `threshold` of them are returned
C1_Witness ==
    /\ rr_pc = "returned"
    /\ mode = "repo"
    /\ Len(files) = 2
    /\ "threshold" \in DOMAIN cfg
    /\ cfg.threshold > 0
    /\ Len(produced) > cfg.threshold
    /\ results[n_rules] = SubSeq(produced, 1, cfg.threshold)

(***************************************************************************)
(* C5: in repository mode a temporary clone directory no longer exists     *)
(* once the operation that made it has returned or raised, whichever git   *)
(* step or tool invocation failed, read-only files or not: the directory   *)
(* of the front end and the directory of _clone_and_lint.                  *)
(***************************************************************************)
C5_CloneDirectoryRemoved ==
    /\ fe_pc \in {"resolved", "raised", "rules"} => ~dir["resolve"].exists
    /\ rr_pc \in {"returned", "raised"} => ~dir["lint"].exists

\* a tool could not be started, the clone held a read-only file where that
\* blocks removal, and the directory is gone
C5_Witness ==
    /\ rr_pc = "raised"
    /\ rr_err = "FileNotFoundError"
    /\ platform = "nt"
    /\ repo.ro # {}
    /\ ~dir["lint"].exists
    /\ ~dir["resolve"].exists

(***************************************************************************)
(* C6: the failure of a tool invocation (the tool cannot be started, its   *)
(* output is malformed) never propagates out of run_rule_checks.           *)
(***************************************************************************)
ToolErrors == {"FileNotFoundError", "AttributeError", "TypeError"}

C6_ToolFailureNeverPropagates == ~(rr_pc = "raised" /\ rr_err \in ToolErrors)

(***************************************************************************)
(* C2 as stated: when the last line of the response has the shape          *)
(* Confidence: <number>, run_ai_review returns that number as the score    *)
(* and all lines of the response before the last one as the comments,      *)
(* unfiltered.                                                             *)
(***************************************************************************)
C2_CommentsAreAllLinesBeforeLast ==
    (HasContent /\ LinesOf(resp.content) # <<>>
                /\ ConfidenceShape(LastOf(LinesOf(resp.content))))
    => /\ ai_pc = "returned"
       /\ score = ShapeNumber(LastOf(LinesOf(resp.content)))
       /\ comments = FrontOf(LinesOf(resp.content))

(***************************************************************************)
(* C2 as amended: the response is first trimmed of leading and trailing    *)
(* whitespace as a whole.  When the last line of the trimmed response has  *)
(* the shape Confidence: <number>, run_ai_review returns that number as    *)
(* the score and the lines of the trimmed response before the last one as  *)
(* the comments: blank lines between comments are kept, leading blank      *)
(* lines and the leading whitespace of the first line are not.  A response *)
(* that is only the confidence line gives no comment.                      *)
(***************************************************************************)
C2_CommentsAreLinesOfTrimmedResponse ==
    (HasContent /\ LinesOf(TrimOf(resp.content, Whitespace)) # <<>>
                /\ ConfidenceShape(LastOf(LinesOf(TrimOf(resp.content, Whitespace)))))
    => /\ ai_pc = "returned"
       /\ score = ShapeNumber(LastOf(LinesOf(TrimOf(resp.content, Whitespace))))
       /\ comments = FrontOf(LinesOf(TrimOf(resp.content, Whitespace)))

\* a comment, then a blank line kept as a comment, then the confidence line
C2_Witness ==
    /\ ai_pc = "returned"
    /\ ConfidenceShape(conf)
    /\ Len(comments) = 2
    /\ comments[1] # <<>>
    /\ comments[2] = <<>>

(***************************************************************************)
(* C3: in each of these cases run_ai_review raises RuntimeError and        *)
(* nothing else: no choice, no message, no content, content empty after    *)
(* trimming, last line without a colon, text after the colon not a number. *)
(***************************************************************************)
Malformed(r) ==
    \/ r.kind \in {"no_choices", "no_message", "no_content"}
    \/ /\ r.kind = "content"
       /\ LET body == TrimOf(r.content, Whitespace)
              last == LastOf(LinesOf(body))
              C == {i \in 1..Len(last) : last[i] = ":"}
          IN  \/ body = <<>>
              \/ C = {}
              \/ ~IsNumberText(TrimOf(SubSeq(last, SetMin(C) + 1, Len(last)), {SP}))

C3_MalformedRaisesRuntimeError ==
    (AIDone /\ Malformed(resp)) => (ai_pc = "raised" /\ ai_err = "RuntimeError")

(***************************************************************************)
(* C7: whenever run_ai_review returns, the score lies in [0.0, 1.0] and    *)
(* the comments are a list.                                                *)
(***************************************************************************)
InUnitInterval(v) == (v.ip = 0 /\ v.frac >= 0) \/ (v.ip = 1 /\ v.frac = 0)

C7_ScoreInUnitInterval ==
    ai_pc = "returned" => (InUnitInterval(score) /\ comments \in Seq(Seq(AIChars)))

(***************************************************************************)
(* C4: a review that reaches the decision step of the CLI ends with exit   *)
(* status 1 and the count on the error stream if and only if (the flag     *)
(* --auto-reject is set or auto_reject.enabled is true) and the total is   *)
(* above auto_reject.overall_threshold, where the total counts every issue *)
(* of every category and every comment of the AI review, rendered or not;  *)
(* otherwise it ends with exit status 0.                                   *)
(***************************************************************************)
\* every issue of every category and every comment
CountAll ==
    Cardinality(UNION {{<<k, j>> : j \in 1..Len(rules[k])} : k \in 1..Len(rules)})
    + Cardinality(DOMAIN ai_comments)

C4_RejectsIffEnabledAndOverThreshold ==
    cli_pc = "decided"
    => IF (auto_reject \/ cli_cfg.enabled) /\ CountAll > cli_cfg.overall_threshold
       THEN exit_status = 1 /\ err_shown = <<CountAll>>
       ELSE exit_status = 0 /\ err_shown = <<>>

\* rejected on the flag alone, and only because comments that the report
\* does not show are counted
C4_Witness ==
    /\ cli_pc = "decided"
    /\ exit_status = 1
    /\ auto_reject
    /\ ~cli_cfg.enabled
    /\ Len(ai_comments) > cli_cfg.max_comments
    /\ total > cli_cfg.overall_threshold
    /\ total - (Len(ai_comments) - cli_cfg.max_comments) <= cli_cfg.overall_threshold

(***************************************************************************)
(* C9: in the report the section AI Suggestions holds, when the score is   *)
(* at least ai_review.min_confidence, the first min(max_comments, number   *)
(* of comments) comments as bullets in their order and no placeholder;     *)
(* and otherwise no bullet and exactly one placeholder line, with the      *)
(* score to 2 decimal places.                                              *)
(***************************************************************************)
\* the lines of the report after the heading of the section
AISectionOf(r) ==
    LET H == {k \in 1..Len(r) : r[k].kind = "ai_heading"}
    IN  SubSeq(r, SetMax(H) + 1, Len(r))

Scaled(v) == v.ip * One + v.frac
Distance(a, b) == IF a >= b THEN a - b ELSE b - a
\* the score, to the nearest hundredth
IsScoreTo2Places(s2, v) ==
    /\ s2.whole >= 0
    /\ s2.cents \in 0..99
    /\ 2 * Distance(Scaled(v), (s2.whole * 100 + s2.cents) * (One \div 100)) <= One \div 100

C9_AISuggestionsSection ==
    cli_pc \in {"file", "post", "decide", "decided"}
    => LET sec == AISectionOf(report)
           n == Len(ai_comments)
           shownN == IF cli_cfg.max_comments < n THEN cli_cfg.max_comments ELSE n
       IN  IF Scaled(ai_score) >= Scaled(cli_cfg.min_confidence)
           THEN /\ Len(sec) = shownN
                /\ \A k \in 1..shownN :
                      sec[k].kind = "bullet" /\ sec[k].text = ai_comments[k]
           ELSE /\ Len(sec) = 1
                /\ sec[1].kind = "placeholder"
                /\ IsScoreTo2Places(sec[1].score2, ai_score)

\* a score exactly at min_confidence, two different comments, room for one
C9_Witness ==
    /\ cli_pc = "decided"
    /\ ai_score = cli_cfg.min_confidence
    /\ Len(ai_comments) = 2
    /\ ai_comments[1] # ai_comments[2]
    /\ cli_cfg.max_comments = 1
    /\ AISectionOf(report) = <<[kind |-> "bullet", text |-> ai_comments[1]]>>

(***************************************************************************)
(* C10: in the CLI a failure of the HTTP POST of the pull-request comment  *)
(* never aborts the review: the decision step still runs, and the exit     *)
(* status is the one the decision gives.                                   *)
(***************************************************************************)
C10_PostFailureNeverAborts ==
    (post = "raised" /\ cli_pc \notin {"post", "decide"})
    => /\ cli_pc = "decided"
       /\ shown # <<>>
       /\ exit_status = IF Rejects(auto_reject, cli_cfg, total) THEN 1 ELSE 0

(***************************************************************************)
(* C8: two reviews at once in one process, each with its own diff and no   *)
(* repository, share no mutable state: whatever the interleaving, the      *)
(* result of each is the result it gets when it runs alone on its diff.    *)
(***************************************************************************)
\* what _diff_only_lint returns for diff d when nothing else runs
AloneResult(d) ==
    [k \in 1..Len(svc_cfg) |->
        DiffThreshold(svc_cfg[k],
                      IF svc_cfg[k].tool = "flake8" THEN Flake8Issues(d) ELSE <<>>)]

C8_ConcurrentReviewsIndependent ==
    \A r \in Requests :
        (svc_pc[r] = "returned" /\ svc_diff[1] # svc_diff[2])
        => svc_results[r] = AloneResult(svc_diff[r])

=============================================================================
